---- MODULE Spec2Model ----
(***************************************************************************)
(* A model of jsts' Polygon.normalize, GeometryTransformer and             *)
(* GeometrySnapper (src/jsts/geom/Polygon.js,                              *)
(* src/jsts/operation/overlay/snap/GeometrySnapper.js).                    *)
(*                                                                         *)
(* A coordinate is a pair <<x, y>>; a ring or line is a sequence of        *)
(* coordinates (the "components" array of the OpenLayers geometry); a      *)
(* polygon is the sequence of its rings, shell first.                      *)
(***************************************************************************)
EXTENDS Integers, Sequences, FiniteSets, TLC

(***************************************************************************)
(* Bounds of the model.                                                    *)
(***************************************************************************)
MaxCoordSum == 1
MaxRingPts == 3
MaxHoles == 2
MaxCalls == 2
MaxSeqLen == 4
MaxParts == 2
MaxSnapLen == 2
MaxTol == 1

VARIABLES
  components,   \* Polygon.components of the polygon at hand: <<shell, hole...>>
  canon,        \* the components the first normalize() call left, <<>> before it
  calls,        \* normalize() calls made since the polygon was built or re-presented
  lastVary      \* how the polygon was last re-presented: "none", "start", "winding", "holes"

normVars == <<components, canon, calls, lastVary>>

VARIABLES
  scope,        \* the global object: what the free identifiers of the code resolve to
  tr,           \* the transformer instance at hand (its fields)
  ret           \* the last call made and what came of it

xformVars == <<scope, tr, ret>>

vars == <<normVars, xformVars>>

(***************************************************************************)
(* Generic sequence helpers.                                               *)
(***************************************************************************)
Reverse(s) == [i \in 1..Len(s) |-> s[Len(s) + 1 - i]]

RECURSIVE SeqsUpTo(_, _)
SeqsUpTo(S, n) ==
  IF n = 0 THEN {<<>>}
  ELSE LET shorter == SeqsUpTo(S, n - 1)
       IN  shorter \cup {Append(s, x) : s \in {t \in shorter : Len(t) = n - 1}, x \in S}

SeqsOfLen(S, n) == {s \in SeqsUpTo(S, n) : Len(s) = n}

\* lexicographic "less than" on sequences of integers (a proper prefix is smaller)
RECURSIVE LexLess(_, _)
LexLess(a, b) ==
  IF b = <<>> THEN FALSE
  ELSE IF a = <<>> THEN TRUE
  ELSE IF a[1] # b[1] THEN a[1] < b[1]
  ELSE LexLess(Tail(a), Tail(b))

(***************************************************************************)
(* External collaborators of normalize (jsts.geom.Coordinate,              *)
(* jsts.geom.CoordinateArrays, jsts.algorithm.CGAlgorithms).               *)
(***************************************************************************)
\* the lattice points of the triangle x >= 0, y >= 0, x + y <= MaxCoordSum
Points == {p \in (0..MaxCoordSum) \X (0..MaxCoordSum) : p[1] + p[2] <= MaxCoordSum}

\* Coordinate.compareTo: x first, then y
compareTo(a, b) ==
  IF a[1] < b[1] THEN -1
  ELSE IF a[1] > b[1] THEN 1
  ELSE IF a[2] < b[2] THEN -1
  ELSE IF a[2] > b[2] THEN 1
  ELSE 0

\* CoordinateArrays.minCoordinate: the first of the minimal coordinates
RECURSIVE minCoordinateFrom(_, _, _)
minCoordinateFrom(seq, i, best) ==
  IF i > Len(seq) THEN best
  ELSE minCoordinateFrom(seq, i + 1,
                         IF compareTo(best, seq[i]) > 0 THEN seq[i] ELSE best)

minCoordinate(seq) == minCoordinateFrom(seq, 2, seq[1])

\* Array.indexOf, 1-based; 0 when absent
RECURSIVE indexOfFrom(_, _, _)
indexOfFrom(seq, c, i) ==
  IF i > Len(seq) THEN 0
  ELSE IF seq[i] = c THEN i
  ELSE indexOfFrom(seq, c, i + 1)

indexOf(seq, c) == indexOfFrom(seq, c, 1)

\* CoordinateArrays.scroll: rotate so that firstCoordinate comes first
scroll(seq, firstCoordinate) ==
  LET i == indexOf(seq, firstCoordinate)
  IN  IF i = 0 THEN seq
      ELSE SubSeq(seq, i, Len(seq)) \o SubSeq(seq, 1, i - 1)

\* CGAlgorithms.computeOrientation(p1, p2, q): 1 when q is left of p1->p2
computeOrientation(p1, p2, q) ==
  LET det == (p2[1] - p1[1]) * (q[2] - p2[2]) - (p2[2] - p1[2]) * (q[1] - p2[1])
  IN  IF det > 0 THEN 1 ELSE IF det < 0 THEN -1 ELSE 0

\* index (1-based) of the first point with the greatest y
RECURSIVE hiIndexFrom(_, _, _)
hiIndexFrom(ring, i, hi) ==
  IF i > Len(ring) THEN hi
  ELSE hiIndexFrom(ring, i + 1, IF ring[i][2] > ring[hi][2] THEN i ELSE hi)

\* the nearest index before hi (cyclically) holding another point, or hi
RECURSIVE prevDistinct(_, _, _)
prevDistinct(ring, hi, i) ==
  LET j == IF i - 1 < 1 THEN Len(ring) ELSE i - 1
  IN  IF ring[j] = ring[hi] /\ j # hi THEN prevDistinct(ring, hi, j) ELSE j

\* the nearest index after hi (cyclically, over the nPts first points)
RECURSIVE nextDistinct(_, _, _)
nextDistinct(ring, hi, i) ==
  LET nPts == Len(ring) - 1
      j == ((i - 1 + 1) % nPts) + 1
  IN  IF ring[j] = ring[hi] /\ j # hi THEN nextDistinct(ring, hi, j) ELSE j

\* CGAlgorithms.isCCW on a closed ring of at least 4 points
isCCW(ring) ==
  LET hi == hiIndexFrom(ring, 2, 1)
      prev == ring[prevDistinct(ring, hi, hi)]
      next == ring[nextDistinct(ring, hi, hi)]
      disc == computeOrientation(prev, ring[hi], next)
  IN  IF prev = ring[hi] \/ next = ring[hi] \/ prev = next THEN FALSE
      ELSE IF disc = 0 THEN prev[1] > next[1]
      ELSE disc > 0

(***************************************************************************)
(* Geometry.toString of a ring: its WKT text after the LINEARRING tag, as  *)
(* character codes.  Array.prototype.sort without a comparison function    *)
(* orders its elements by these strings.                                   *)
(***************************************************************************)
RECURSIVE digits(_)
digits(n) == IF n < 10 THEN <<48 + n>> ELSE digits(n \div 10) \o <<48 + (n % 10)>>

RECURSIVE coordsText(_)
coordsText(seq) ==
  IF seq = <<>> THEN <<>>
  ELSE digits(seq[1][1]) \o <<32>> \o digits(seq[1][2])
       \o (IF Len(seq) = 1 THEN <<>> ELSE <<44>> \o coordsText(Tail(seq)))

toString(ring) ==
  IF ring = <<>> THEN <<32, 69, 77, 80, 84, 89>>
  ELSE <<40>> \o coordsText(ring) \o <<41>>

(***************************************************************************)
(* jsts.geom.Polygon                                                       *)
(***************************************************************************)
\* LinearRing.isEmpty
isEmptyRing(ring) == Len(ring) = 0

\* normalize2 that reverses the open point list and closes it afterwards
normalize2_reverseBeforeClosing(ring, clockwise) ==
  IF isEmptyRing(ring) THEN ring
  ELSE LET scrolled == scroll(SubSeq(ring, 1, Len(ring) - 1), minCoordinate(ring))
           open == IF isCCW(scrolled \o <<scrolled[1]>>) = clockwise
                   THEN Reverse(scrolled) ELSE scrolled
       IN  open \o <<open[1]>>

\* normalize2 that reverses when the winding differs from the flag
normalize2_flippedTest(ring, clockwise) ==
  IF isEmptyRing(ring) THEN ring
  ELSE LET scrolled == scroll(SubSeq(ring, 1, Len(ring) - 1), minCoordinate(ring))
           closed == scrolled \o <<scrolled[1]>>
       IN  IF isCCW(closed) # clockwise THEN Reverse(closed) ELSE closed

\* Polygon.prototype.normalize2: the ring's new components
normalize2(ring, clockwise) ==
  IF isEmptyRing(ring) THEN ring
  ELSE LET uniqueCoordinates == SubSeq(ring, 1, Len(ring) - 1)
           minCoord == minCoordinate(ring)
           scrolled == scroll(uniqueCoordinates, minCoord)
           closed == scrolled \o <<scrolled[1]>>
       IN  IF isCCW(closed) = clockwise THEN Reverse(closed) ELSE closed

\* holes.sort(): ascending by toString, equal strings keep their order
RECURSIVE insertHole(_, _)
insertHole(sorted, h) ==
  IF sorted = <<>> THEN <<h>>
  ELSE IF LexLess(toString(h), toString(sorted[1])) THEN <<h>> \o sorted
  ELSE <<sorted[1]>> \o insertHole(Tail(sorted), h)

RECURSIVE sortHoles(_)
sortHoles(holes) ==
  IF holes = <<>> THEN <<>>
  ELSE insertHole(sortHoles(SubSeq(holes, 1, Len(holes) - 1)), holes[Len(holes)])

\* normalize that leaves the holes in the order it found them
normalize_noSort(comps) ==
  <<normalize2(comps[1], TRUE)>>
    \o [i \in 1..(Len(comps) - 1) |-> normalize2(comps[i + 1], FALSE)]

\* Polygon.prototype.normalize: the polygon's new components
normalize(comps) ==
  LET shell == normalize2(comps[1], TRUE)
      holes == [i \in 1..(Len(comps) - 1) |-> normalize2(comps[i + 1], FALSE)]
  IN  <<shell>> \o sortHoles(holes)

(***************************************************************************)
(* The polygons the model starts from: every ring is empty or a closed     *)
(* sequence of MaxRingPts points of the grid plus the closing point.       *)
(***************************************************************************)
Rings == {<<>>} \cup {u \o <<u[1]>> : u \in SeqsOfLen(Points, MaxRingPts)}

Polygons == {p \in SeqsUpTo(Rings, MaxHoles + 1) : Len(p) >= 1}

\* the same ring starting one point later
rotateRing(ring) ==
  IF Len(ring) < 2 THEN ring
  ELSE LET u == SubSeq(ring, 1, Len(ring) - 1)
           v == Tail(u) \o <<u[1]>>
       IN  v \o <<v[1]>>

(***************************************************************************)
(* Geometries.  A geometry is a record: kind, coords (the coordinates of   *)
(* a Point, LineString or LinearRing) and parts (the rings of a Polygon,   *)
(* shell first, or the members of a collection).                           *)
(***************************************************************************)
\* by tells which object this is, an object of the caller's ("input") or
\* one created since ("new"); seqBy tells the same of the array it holds
\* (its coordinates, or its rings or members).
Geom(kind, coords, parts) ==
  [kind |-> kind, coords |-> coords, parts |-> parts, by |-> "new", seqBy |-> "new"]

\* the same geometry as built by the caller before any call: every node
\* and every array of it is the caller's
RECURSIVE Given(_)
Given(g) ==
  [g EXCEPT !.by = "input", !.seqBy = "input",
            !.parts = [i \in 1..Len(g.parts) |-> Given(g.parts[i])]]

\* an array of coordinates as an object: its elements and who created it
Array(seq, by) == [seq |-> seq, by |-> by]

\* geometry g holding the array created by `by` (the factory keeps the
\* array it is handed)
holding(g, by) == [g EXCEPT !.seqBy = by]

NullGeom == Geom("null", <<>>, <<>>)

\* the value undefined where a geometry is expected
UndefinedGeom == Geom("undefined", <<>>, <<>>)

LeafKinds == {"Point", "LineString", "LinearRing"}

CollectionKinds == {"MultiPoint", "MultiLineString", "MultiPolygon", "GeometryCollection"}

\* Geometry.isEmpty; for a Polygon, Polygon.prototype.isEmpty (the later of
\* the two definitions in the file wins): every ring is empty
RECURSIVE isEmpty(_)
isEmpty(g) ==
  IF g.kind \in LeafKinds THEN Len(g.coords) = 0
  ELSE \A i \in 1..Len(g.parts) : isEmpty(g.parts[i])

\* Geometry.getCoordinates; for a Polygon, Polygon.prototype.getCoordinates
RECURSIVE concatCoordinates(_, _)
RECURSIVE getCoordinates(_)
concatCoordinates(parts, i) ==
  IF i > Len(parts) THEN <<>>
  ELSE getCoordinates(parts[i]) \o concatCoordinates(parts, i + 1)

getCoordinates(g) ==
  IF g.kind \in LeafKinds THEN g.coords
  ELSE IF g.kind = "Polygon" /\ isEmpty(g) THEN <<>>
  ELSE concatCoordinates(g.parts, 1)

(***************************************************************************)
(* The geometry factory (jsts.geom.GeometryFactory).                       *)
(***************************************************************************)
createLineString(seq) == Geom("LineString", seq, <<>>)

createLinearRing(seq) == Geom("LinearRing", seq, <<>>)

createPolygon(shell, holes) == Geom("Polygon", <<>>, <<shell>> \o holes)

createGeometryCollection(list) == Geom("GeometryCollection", <<>>, list)

\* GeometryFactory.buildGeometry: the most specific geometry for a list
buildGeometry(list) ==
  LET isHeterogeneous == \E i \in 1..Len(list) : list[i].kind # list[1].kind
      hasGeometryCollection == \E i \in 1..Len(list) : list[i].kind \in CollectionKinds
  IN  IF list = <<>> THEN createGeometryCollection(<<>>)
      ELSE IF isHeterogeneous \/ hasGeometryCollection THEN createGeometryCollection(list)
      ELSE IF Len(list) > 1
        THEN IF list[1].kind = "Polygon" THEN Geom("MultiPolygon", <<>>, list)
             ELSE IF list[1].kind = "Point" THEN Geom("MultiPoint", <<>>, list)
             ELSE Geom("MultiLineString", <<>>, list)
      ELSE list[1]

(***************************************************************************)
(* The global object.  A free identifier of the code (one that is neither  *)
(* a parameter, a var nor this.something) resolves to a property of the    *)
(* global object: <<>> when the host page defines no such name (reading it *)
(* throws a ReferenceError), <<v>> when it holds v.                        *)
(***************************************************************************)
Unbound == <<>>

Bound(v) == <<v>>

IsBound(b) == b # <<>>

ValueOf(b) == b[1]

\* the names the code reads or writes without qualifying them
Scope(alert, LineStringSnapper, snapTolerance, isSelfSnap, snapPts, pruneEmptyGeometry, preserveGeometryCollectionType, Polygonal) ==
  [alert |-> alert,
   LineStringSnapper |-> LineStringSnapper,
   snapTolerance |-> snapTolerance,
   isSelfSnap |-> isSelfSnap,
   snapPts |-> snapPts,
   pruneEmptyGeometry |-> pruneEmptyGeometry,
   preserveGeometryCollectionType |-> preserveGeometryCollectionType,
   Polygonal |-> Polygonal]

\* a host that defines none of them
BareScope == Scope(Unbound, Unbound, Unbound, Unbound, Unbound, Unbound, Unbound, Unbound)

(***************************************************************************)
(* What a call comes to: a returned geometry (with the factory call that   *)
(* made it and the list handed to that call), a returned pair of          *)
(* geometries, or a thrown error; input is the transformer's inputGeom     *)
(* field when the call ends.                                               *)
(***************************************************************************)
Return(g, via, args) ==
  [tag |-> "return", geom |-> g, error |-> "none", via |-> via, args |-> args,
   input |-> NullGeom, pair |-> <<>>]

ReturnPair(g0, g1) ==
  [tag |-> "return", geom |-> NullGeom, error |-> "none", via |-> "array", args |-> <<>>,
   input |-> NullGeom, pair |-> <<g0, g1>>]

Throw(e) ==
  [tag |-> "throw", geom |-> NullGeom, error |-> e, via |-> "none", args |-> <<>>,
   input |-> NullGeom, pair |-> <<>>]

\* no call made yet
NoOutcome ==
  [tag |-> "none", geom |-> NullGeom, error |-> "none", via |-> "none", args |-> <<>>,
   input |-> NullGeom, pair |-> <<>>]

\* the same outcome with the inputGeom field the call leaves behind
WithInput(r, g) == [r EXCEPT !.input = g]

\* a coordinate sequence or a thrown error
ReturnSeq(arr) == [tag |-> "return", seq |-> arr.seq, by |-> arr.by, error |-> "none"]

ThrowSeq(e) == [tag |-> "throw", seq |-> <<>>, by |-> "new", error |-> e]

(***************************************************************************)
(* The line-string snapper (jsts.operation.overlay.snap.LineStringSnapper):*)
(* snapTo(snapPts) on a snapper built over srcPts with a tolerance.        *)
(* Distances are compared squared, so the arithmetic stays in integers.    *)
(***************************************************************************)
Dist2(a, b) == (a[1] - b[1]) * (a[1] - b[1]) + (a[2] - b[2]) * (a[2] - b[2])

\* is p within tol of the segment a-b (distance clamped to the segment)
withinOfSegment(p, a, b, tol) ==
  LET len2 == Dist2(a, b)
      dot == (p[1] - a[1]) * (b[1] - a[1]) + (p[2] - a[2]) * (b[2] - a[2])
      cross == (b[1] - a[1]) * (p[2] - a[2]) - (b[2] - a[2]) * (p[1] - a[1])
  IN  IF len2 = 0 \/ dot <= 0 THEN Dist2(p, a) <= tol * tol
      ELSE IF dot >= len2 THEN Dist2(p, b) <= tol * tol
      ELSE cross * cross <= tol * tol * len2

\* the targets vertex i of srcPts may snap to: within tolerance and, when
\* snapping a geometry to itself, not the position of another source vertex
snapCandidates(srcPts, i, tol, allowSnappingToSourceVertices, snapPts) ==
  {k \in 1..Len(snapPts) :
     /\ Dist2(srcPts[i], snapPts[k]) <= tol * tol
     /\ allowSnappingToSourceVertices =>
          \/ snapPts[k] = srcPts[i]
          \/ \A j \in 1..Len(srcPts) : srcPts[j] # snapPts[k]}

\* index of the target vertex i snaps to (the closest, the first of equally
\* close ones), 0 when there is none
snapTargetOf(srcPts, i, tol, allowSnappingToSourceVertices, snapPts) ==
  LET cand == snapCandidates(srcPts, i, tol, allowSnappingToSourceVertices, snapPts)
  IN  IF cand = {} THEN 0
      ELSE CHOOSE k \in cand :
             \A j \in cand :
               \/ Dist2(srcPts[i], snapPts[k]) < Dist2(srcPts[i], snapPts[j])
               \/ Dist2(srcPts[i], snapPts[k]) = Dist2(srcPts[i], snapPts[j]) /\ k <= j

\* move 1, vertex snap
snapVertices(srcPts, tol, allowSnappingToSourceVertices, snapPts) ==
  [i \in 1..Len(srcPts) |->
     LET k == snapTargetOf(srcPts, i, tol, allowSnappingToSourceVertices, snapPts)
     IN  IF k = 0 THEN srcPts[i] ELSE snapPts[k]]

\* the first segment of pts that target q is inserted into, 0 when none
segmentToSnap(pts, q, tol) ==
  LET segs == {i \in 1..(Len(pts) - 1) :
                 /\ q # pts[i]
                 /\ q # pts[i + 1]
                 /\ withinOfSegment(q, pts[i], pts[i + 1], tol)}
  IN  IF segs = {} THEN 0 ELSE CHOOSE i \in segs : \A j \in segs : i <= j

\* q inserted after the i-th point of pts; pts itself when i = 0
insertInto(pts, q, i) ==
  IF i = 0 THEN pts ELSE SubSeq(pts, 1, i) \o <<q>> \o SubSeq(pts, i + 1, Len(pts))

\* move 2, vertex addition: the targets from the k-th on, in order
RECURSIVE snapSegments(_, _, _, _, _)
snapSegments(pts, consumed, tol, snapPts, k) ==
  IF k > Len(snapPts) THEN pts
  ELSE snapSegments(insertInto(pts, snapPts[k],
                               IF k \in consumed THEN 0
                               ELSE segmentToSnap(pts, snapPts[k], tol)),
                    consumed, tol, snapPts, k + 1)

\* new LineStringSnapper(srcPts, tol), setAllowSnappingToSourceVertices(flag),
\* snapTo(snapPts)
lineSnap(srcPts, tol, allowSnappingToSourceVertices, snapPts) ==
  LET consumed == {snapTargetOf(srcPts, i, tol, allowSnappingToSourceVertices, snapPts) :
                     i \in 1..Len(srcPts)} \ {0}
  IN  snapSegments(snapVertices(srcPts, tol, allowSnappingToSourceVertices, snapPts),
                   consumed, tol, snapPts, 1)

(***************************************************************************)
(* jsts.geom.util.GeometryTransformer                                      *)
(***************************************************************************)
\* new jsts.geom.util.GeometryTransformer()
newGeometryTransformer ==
  [cls |-> "GeometryTransformer",
   inputGeom |-> NullGeom,
   pruneEmptyGeometry |-> TRUE,
   preserveGeometryCollectionType |-> TRUE,
   preserveCollections |-> FALSE,
   preserveType |-> TRUE,
   snapTolerance |-> 0,
   snapPts |-> <<>>,
   isSelfSnap |-> FALSE]

\* copy that hands back the array it was given
copy_sameArray(seq) == seq

\* GeometryTransformer.prototype.getInputGeometry
getInputGeometry(t) == t.inputGeom

\* GeometryTransformer.prototype.copy: seq.clone()
copy(seq) == Array([i \in 1..Len(seq.seq) |-> seq.seq[i]], "new")

\* GeometryTransformer.prototype.transformCoordinates (the default hook)
GeometryTransformer_transformCoordinates(t, sc, coords) == ReturnSeq(copy(coords))

\* SnapTransformer.prototype.snapLine(srcPts, snapPts): the class, the
\* tolerance and the flag are free identifiers, the targets are the parameter
SnapTransformer_snapLine(t, sc, srcPts, snapPts) ==
  IF ~IsBound(sc.LineStringSnapper) THEN ThrowSeq("ReferenceError")
  ELSE IF ~IsBound(sc.snapTolerance) THEN ThrowSeq("ReferenceError")
  ELSE IF ~IsBound(sc.isSelfSnap) THEN ThrowSeq("ReferenceError")
  ELSE ReturnSeq(Array(lineSnap(srcPts.seq, ValueOf(sc.snapTolerance), ValueOf(sc.isSelfSnap),
                               snapPts),
                      "new"))

\* SnapTransformer.prototype.transformCoordinates: snapPts is a free
\* identifier here; the coordinate sequence factory wraps the new points
SnapTransformer_transformCoordinates(t, sc, coords) ==
  IF ~IsBound(sc.snapPts) THEN ThrowSeq("ReferenceError")
  ELSE SnapTransformer_snapLine(t, sc, coords, ValueOf(sc.snapPts))

\* this.transformCoordinates(coords, parent): the hook of the instance's class
transformCoordinates(t, sc, coords) ==
  IF t.cls = "SnapTransformer" THEN SnapTransformer_transformCoordinates(t, sc, coords)
  ELSE GeometryTransformer_transformCoordinates(t, sc, coords)

\* GeometryTransformer.prototype.transformPoint
transformPoint(t, sc, geom) == Throw("NotImplementedError")

\* the loop of transformMultiPoint / MultiLineString / MultiPolygon over the
\* outcomes of its members: the first throw ends it, null and empty
\* results are skipped
RECURSIVE survivors(_, _)
survivors(outcomes, i) ==
  IF i > Len(outcomes) THEN <<>>
  ELSE (IF outcomes[i].geom = NullGeom \/ isEmpty(outcomes[i].geom) THEN <<>>
        ELSE <<outcomes[i].geom>>) \o survivors(outcomes, i + 1)

firstThrow(outcomes) ==
  IF \E i \in 1..Len(outcomes) : outcomes[i].tag = "throw"
  THEN LET k == CHOOSE i \in 1..Len(outcomes) :
                  /\ outcomes[i].tag = "throw"
                  /\ \A j \in 1..(i - 1) : outcomes[j].tag # "throw"
       IN  <<outcomes[k]>>
  ELSE <<>>

builtFrom(transGeomList) ==
  Return(buildGeometry(transGeomList), "buildGeometry", transGeomList)

transformMulti(outcomes) ==
  IF \E i \in 1..Len(outcomes) : outcomes[i].tag = "throw"
  THEN Throw(firstThrow(outcomes)[1].error)
  ELSE builtFrom(survivors(outcomes, 1))

\* GeometryTransformer.prototype.transformMultiPoint
transformMultiPoint(t, sc, geom) ==
  transformMulti([i \in 1..Len(geom.parts) |-> transformPoint(t, sc, geom.parts[i])])

\* ringOrLine that also demotes a sequence of four points
ringOrLine_demotesFour(t, seq) ==
  IF seq.tag = "throw" THEN Throw(seq.error)
  ELSE IF Len(seq.seq) > 0 /\ Len(seq.seq) <= 4 /\ ~t.preserveType
    THEN Return(holding(createLineString(seq.seq), seq.by), "createLineString", <<>>)
  ELSE Return(holding(createLinearRing(seq.seq), seq.by), "createLinearRing", <<>>)

\* transformLinearRing once seq, the outcome of the hook, is there
ringOrLine(t, seq) ==
  IF seq.tag = "throw" THEN Throw(seq.error)
  ELSE IF Len(seq.seq) > 0 /\ Len(seq.seq) < 4 /\ ~t.preserveType
    THEN Return(holding(createLineString(seq.seq), seq.by), "createLineString", <<>>)
  ELSE Return(holding(createLinearRing(seq.seq), seq.by), "createLinearRing", <<>>)

\* GeometryTransformer.prototype.transformLinearRing
transformLinearRing(t, sc, geom) ==
  ringOrLine(t, transformCoordinates(t, sc, Array(geom.coords, geom.seqBy)))

\* transformLineString once seq, the outcome of the hook, is there
lineOf(seq) ==
  IF seq.tag = "throw" THEN Throw(seq.error)
  ELSE Return(holding(createLineString(seq.seq), seq.by), "createLineString", <<>>)

\* GeometryTransformer.prototype.transformLineString
transformLineString(t, sc, geom) ==
  lineOf(transformCoordinates(t, sc, Array(getCoordinates(geom), geom.seqBy)))

\* GeometryTransformer.prototype.transformMultiLineString
transformMultiLineString(t, sc, geom) ==
  transformMulti([i \in 1..Len(geom.parts) |-> transformLineString(t, sc, geom.parts[i])])

\* the holes loop of transformPolygon: null and empty holes are skipped
RECURSIVE keptHoles(_, _)
keptHoles(outcomes, i) ==
  IF i > Len(outcomes) THEN <<>>
  ELSE (IF outcomes[i].geom = NullGeom \/ isEmpty(outcomes[i].geom) THEN <<>>
        ELSE <<outcomes[i].geom>>) \o keptHoles(outcomes, i + 1)

\* polygonOrBuilt that takes an empty shell for a valid one
polygonOrBuilt_emptyShellValid(shell, holes) ==
  IF /\ ~(shell = NullGeom \/ shell.kind # "LinearRing")
     /\ \A i \in 1..Len(holes) : holes[i].kind = "LinearRing"
  THEN Return(createPolygon(shell, holes), "createPolygon", <<shell>> \o holes)
  ELSE builtFrom((IF shell # NullGeom THEN <<shell>> ELSE <<>>) \o holes)

\* the end of transformPolygon: shell and holes are the transformed rings kept
polygonOrBuilt(shell, holes) ==
  IF /\ ~(shell = NullGeom \/ shell.kind # "LinearRing" \/ isEmpty(shell))
     /\ \A i \in 1..Len(holes) : holes[i].kind = "LinearRing"
  THEN Return(createPolygon(shell, holes), "createPolygon", <<shell>> \o holes)
  ELSE builtFrom((IF shell # NullGeom THEN <<shell>> ELSE <<>>) \o holes)

\* transformPolygon once the rings have been transformed
polygonOf(shell, holeOutcomes) ==
  IF shell.tag = "throw" THEN Throw(shell.error)
  ELSE IF \E i \in 1..Len(holeOutcomes) : holeOutcomes[i].tag = "throw"
    THEN Throw(firstThrow(holeOutcomes)[1].error)
  ELSE polygonOrBuilt(shell.geom, keptHoles(holeOutcomes, 1))

\* GeometryTransformer.prototype.transformPolygon
transformPolygon(t, sc, geom) ==
  polygonOf(transformLinearRing(t, sc, geom.parts[1]),
            [i \in 1..(Len(geom.parts) - 1) |-> transformLinearRing(t, sc, geom.parts[i + 1])])

\* GeometryTransformer.prototype.transformMultiPolygon
transformMultiPolygon(t, sc, geom) ==
  transformMulti([i \in 1..Len(geom.parts) |-> transformPolygon(t, sc, geom.parts[i])])

\* GeometryTransformer.prototype.transform, which sets this.inputGeom and
\* dispatches on the kind, and transformGeometryCollection, which calls
\* this.transform on every member.  collectFrom is the loop from member i
\* on (acc is transGeomList so far, inp the inputGeom field so far) and
\* collectStep its body once member i has been transformed.
RECURSIVE transform(_, _, _)
RECURSIVE collectFrom(_, _, _, _, _, _)
RECURSIVE collectStep(_, _, _, _, _, _)
collectStep(t, sc, parts, i, acc, transformGeom) ==
  IF transformGeom.tag = "throw" THEN transformGeom
  ELSE IF transformGeom.geom # NullGeom /\ ~IsBound(sc.pruneEmptyGeometry)
    THEN WithInput(Throw("ReferenceError"), transformGeom.input)
  ELSE collectFrom(t, sc, parts, i + 1,
                   IF \/ transformGeom.geom = NullGeom
                      \/ ValueOf(sc.pruneEmptyGeometry) /\ isEmpty(transformGeom.geom)
                   THEN acc
                   ELSE Append(acc, transformGeom.geom),
                   transformGeom.input)

collectFrom(t, sc, parts, i, acc, inp) ==
  IF i > Len(parts)
  THEN IF ~IsBound(sc.preserveGeometryCollectionType)
         THEN WithInput(Throw("ReferenceError"), inp)
       ELSE IF ValueOf(sc.preserveGeometryCollectionType)
         THEN WithInput(Return(createGeometryCollection(acc), "createGeometryCollection", acc), inp)
       ELSE WithInput(Return(buildGeometry(acc), "buildGeometry", acc), inp)
  ELSE collectStep(t, sc, parts, i, acc, transform(t, sc, parts[i]))

\* GeometryTransformer.prototype.transformGeometryCollection
transformGeometryCollection(t, sc, geom, inp) == collectFrom(t, sc, geom.parts, 1, <<>>, inp)

transform(t, sc, inputGeom) ==
  IF inputGeom.kind = "Point" THEN WithInput(transformPoint(t, sc, inputGeom), inputGeom)
  ELSE IF inputGeom.kind = "LinearRing"
    THEN WithInput(transformLinearRing(t, sc, inputGeom), inputGeom)
  ELSE IF inputGeom.kind = "LineString"
    THEN WithInput(transformLineString(t, sc, inputGeom), inputGeom)
  ELSE IF inputGeom.kind = "MultiLineString"
    THEN WithInput(transformMultiLineString(t, sc, inputGeom), inputGeom)
  ELSE IF inputGeom.kind = "MultiPoint"
    THEN WithInput(transformMultiPoint(t, sc, inputGeom), inputGeom)
  ELSE IF inputGeom.kind = "Polygon"
    THEN WithInput(transformPolygon(t, sc, inputGeom), inputGeom)
  ELSE IF inputGeom.kind = "MultiPolygon"
    THEN WithInput(transformMultiPolygon(t, sc, inputGeom), inputGeom)
  ELSE transformGeometryCollection(t, sc, inputGeom, inputGeom)

(***************************************************************************)
(* jsts.operation.overlay.snap.SnapTransformer and GeometrySnapper         *)
(***************************************************************************)
\* new SnapTransformer(...) with nargs arguments: the object, or the error.
\* The constructor declares no parameters, so isSelfSnap in its second
\* branch is a free identifier.
newSnapTransformer(sc, nargs, snapTolerance, snapPts) ==
  LET made(flag) == [tag |-> "return", error |-> "none",
                     t |-> [newGeometryTransformer EXCEPT
                              !.cls = "SnapTransformer",
                              !.snapTolerance = snapTolerance,
                              !.snapPts = snapPts,
                              !.isSelfSnap = flag]]
  IN  IF nargs = 2 THEN made(FALSE)
      ELSE IF ~IsBound(sc.isSelfSnap)
        THEN [tag |-> "throw", error |-> "ReferenceError", t |-> newGeometryTransformer]
      ELSE made(ValueOf(sc.isSelfSnap))

\* javascript.util.TreeSet.toArray: the points of S in ascending order
RECURSIVE sortedArray(_)
sortedArray(S) ==
  IF S = {} THEN <<>>
  ELSE LET least == CHOOSE p \in S : \A q \in S : compareTo(p, q) <= 0
       IN  <<least>> \o sortedArray(S \ {least})

\* GeometrySnapper.prototype.extractTargetCoordinates
extractTargetCoordinates(g) ==
  LET pts == getCoordinates(g)
  IN  sortedArray({pts[i] : i \in 1..Len(pts)})

\* a call that also writes the global object: its outcome and the scope after
Effect(out, sc) == [out |-> out, scope |-> sc]

\* snapTo once the global snapPts has been assigned (sc1 is the scope then)
snapToWith(sc1, srcGeom, snapTolerance) ==
  Effect(transform(newSnapTransformer(sc1, 2, snapTolerance, ValueOf(sc1.snapPts)).t,
                   sc1, srcGeom),
         sc1)

\* GeometrySnapper.prototype.snapTo on a snapper built over srcGeom
snapTo(sc, srcGeom, snapGeom, snapTolerance) ==
  IF ~IsBound(sc.alert) THEN Effect(Throw("ReferenceError"), sc)
  ELSE snapToWith([sc EXCEPT !.snapPts = Bound(extractTargetCoordinates(snapGeom))],
                  srcGeom, snapTolerance)

\* the end of snap: both passes are done
snapBoth(first, second) ==
  IF second.out.tag = "throw" THEN second
  ELSE Effect(ReturnPair(first.out.geom, second.out.geom), second.scope)

\* snap after its first pass
snapSecond(first, g1, snapTolerance) ==
  IF first.out.tag = "throw" THEN first
  ELSE snapBoth(first, snapTo(first.scope, g1, first.out.geom, snapTolerance))

\* GeometrySnapper.snap (static)
snap(sc, g0, g1, snapTolerance) ==
  IF ~IsBound(sc.alert) THEN Effect(Throw("ReferenceError"), sc)
  ELSE snapSecond(snapTo(sc, g0, g1, snapTolerance), g1, snapTolerance)

\* the value of the property jsts.operation.overlay.snap.GeometrySnapper.SnapTransformer:
\* nothing assigns it (the class is jsts.operation.overlay.snap.SnapTransformer)
GeometrySnapper_SnapTransformer == Unbound

\* instanceof Polygonal
isPolygonal(g) == g.kind \in {"Polygon", "MultiPolygon"}

\* the end of snapToSelf: the snapped geometry is there
cleaned(sc1, snappedGeom, cleanResult) ==
  IF snappedGeom.tag = "throw" THEN Effect(snappedGeom, sc1)
  ELSE IF ~cleanResult THEN Effect(snappedGeom, sc1)
  ELSE IF ~IsBound(sc1.Polygonal) THEN Effect(Throw("ReferenceError"), sc1)
  ELSE IF isPolygonal(snappedGeom.geom)
    THEN Effect(Return(snappedGeom.geom, "buffer", <<snappedGeom.geom>>), sc1)
  ELSE Effect(snappedGeom, sc1)

\* snapToSelf once the transformer has been constructed
snapToSelfWith(sc1, snapTrans, srcGeom, cleanResult) ==
  IF snapTrans.tag = "throw" THEN Effect(Throw(snapTrans.error), sc1)
  ELSE cleaned(sc1, transform(snapTrans.t, sc1, srcGeom), cleanResult)

\* snapToSelf once the global snapPts has been assigned (sc1 is the scope then)
snapToSelfFrom(sc1, srcGeom, snapTolerance, cleanResult) ==
  IF ~IsBound(GeometrySnapper_SnapTransformer) THEN Effect(Throw("TypeError"), sc1)
  ELSE snapToSelfWith(sc1, newSnapTransformer(sc1, 3, snapTolerance, ValueOf(sc1.snapPts)),
                      srcGeom, cleanResult)

\* GeometrySnapper.prototype.snapToSelf on a snapper built over srcGeom
snapToSelf(sc, srcGeom, snapTolerance, cleanResult) ==
  snapToSelfFrom([sc EXCEPT !.snapPts = Bound(extractTargetCoordinates(srcGeom))],
                 srcGeom, snapTolerance, cleanResult)

(***************************************************************************)
(* The calls on record and the geometries they are made with.              *)
(***************************************************************************)
Call(op, arg, other, tol, clean, out) ==
  [op |-> op, arg |-> arg, other |-> other, tol |-> tol, clean |-> clean, out |-> out,
   n |-> 0]

\* a call of an accessor of the polygon at hand: n is the index passed, or
\* the number returned
RingCall(op, n, out) == [Call(op, NullGeom, NullGeom, 0, FALSE, out) EXCEPT !.n = n]

NoCall == Call("none", NullGeom, NullGeom, 0, FALSE, NoOutcome)

\* the i-th point of a fixed walk over the grid
WalkPt(i) == IF i % 3 = 1 THEN <<0, 0>> ELSE IF i % 3 = 2 THEN <<1, 0>> ELSE <<0, 1>>

\* an open and a closed sequence of n points
WalkLine(n) == [i \in 1..n |-> WalkPt(i)]

WalkRing(n) == [i \in 1..n |-> IF i = n THEN WalkPt(1) ELSE WalkPt(i)]

PointGeoms == {Geom("Point", <<>>, <<>>), Geom("Point", <<WalkPt(1)>>, <<>>)}

LineStringGeoms == {createLineString(WalkLine(n)) : n \in 0..MaxSeqLen}

LinearRingGeoms == {createLinearRing(WalkRing(n)) : n \in 0..MaxSeqLen}

PolygonGeoms ==
  {Geom("Polygon", <<>>, rings) :
     rings \in {r \in SeqsUpTo(LinearRingGeoms, MaxHoles + 1) : Len(r) >= 1}}

\* the members collections are made of
MemberPolygons == {g \in PolygonGeoms : Len(g.parts) = 1}

Members ==
  {Geom("Point", <<WalkPt(1)>>, <<>>),
   createLineString(<<>>), createLineString(WalkLine(2)),
   createLinearRing(<<>>), createLinearRing(WalkRing(3)), createLinearRing(WalkRing(4)),
   createPolygon(createLinearRing(<<>>), <<>>),
   createPolygon(createLinearRing(WalkRing(4)), <<>>),
   Geom("MultiLineString", <<>>, <<>>),
   createGeometryCollection(<<>>),
   createGeometryCollection(<<createLineString(WalkLine(2))>>)}

CollectionGeoms ==
  {Geom("MultiPoint", <<>>, m) : m \in SeqsUpTo(PointGeoms, MaxParts)}
  \cup {Geom("MultiLineString", <<>>, m) : m \in SeqsUpTo(LineStringGeoms, MaxParts)}
  \cup {Geom("MultiPolygon", <<>>, m) : m \in SeqsUpTo(MemberPolygons, MaxParts)}
  \cup {createGeometryCollection(m) : m \in SeqsUpTo(Members, MaxParts)}

Geometries ==
  {Given(g) : g \in PointGeoms \cup LineStringGeoms \cup LinearRingGeoms
                     \cup PolygonGeoms \cup CollectionGeoms}

\* the geometries snapped: lines over the grid without repeated neighbours
\* and not of a single point, and the empty multi-line
SnapGeoms ==
  {Given(createLineString(c)) :
     c \in {d \in SeqsUpTo(Points, MaxSnapLen) :
              /\ Len(d) # 1
              /\ \A i \in 1..(Len(d) - 1) : d[i] # d[i + 1]}}
  \cup {Given(Geom("MultiLineString", <<>>, <<>>))}

Tolerances == 0..MaxTol

Bindings(S) == {Unbound} \cup {Bound(v) : v \in S}

\* what the host page may define of the names the transformer reads
TransScopes ==
  {Scope(Unbound, Unbound, Unbound, Unbound, Unbound, prune, preserve, Unbound) :
     prune \in Bindings(BOOLEAN), preserve \in Bindings(BOOLEAN)}

\* what the host may define of the names the snapper reads
SnapScopes ==
  {Scope(alert, snapper, tol, self, Unbound, Unbound, Unbound, Unbound) :
     alert \in Bindings({TRUE}), snapper \in Bindings({TRUE}),
     tol \in Bindings(Tolerances), self \in Bindings(BOOLEAN)}

(***************************************************************************)
(* The ring accessors of jsts.geom.Polygon.                                *)
(***************************************************************************)
\* this.components.slice(1)
holesOf(comps) == SubSeq(comps, 2, Len(comps))

\* Polygon.prototype.getNumInteriorRing
getNumInteriorRing(comps) == Len(holesOf(comps))

\* Polygon.prototype.getInteriorRingN: holes[n], the ring itself or, as for
\* any index an array does not have, undefined
getInteriorRingN(comps, n) ==
  IF n >= 0 /\ n < Len(holesOf(comps))
  THEN Return(Given(createLinearRing(holesOf(comps)[n + 1])), "holes[n]", <<>>)
  ELSE Return(UndefinedGeom, "holes[n]", <<>>)

\* the indexes getInteriorRingN is called with
RingIndexes == (0 - 1)..(MaxHoles + 1)

(***************************************************************************)
(* Specifications.                                                         *)
(***************************************************************************)
\* no polygon is being normalized
NormIdle ==
  /\ components = <<<<>>>>
  /\ canon = <<>>
  /\ calls = 0
  /\ lastVary = "none"

\* no transformer or snapper is in use
XformIdle ==
  /\ scope = BareScope
  /\ tr = newGeometryTransformer
  /\ ret = NoCall

NormInit ==
  /\ components \in Polygons
  /\ canon = <<>>
  /\ calls = 0
  /\ lastVary = "none"
  /\ XformIdle

\* p.normalize()
Normalize ==
  /\ calls < MaxCalls
  /\ components' = normalize(components)
  /\ canon' = IF canon = <<>> THEN normalize(components) ELSE canon
  /\ calls' = calls + 1
  /\ UNCHANGED <<lastVary, xformVars>>

\* Once a normal form is on record, the caller presents the same polygon
\* differently: ring i starts at its next point.
VaryStart ==
  /\ canon # <<>>
  /\ \E i \in 1..Len(components) :
       /\ components[i] # <<>>
       /\ components' = [components EXCEPT ![i] = rotateRing(components[i])]
  /\ calls' = 0
  /\ lastVary' = "start"
  /\ UNCHANGED <<canon, xformVars>>

\* ring i is wound the other way
VaryWinding ==
  /\ canon # <<>>
  /\ \E i \in 1..Len(components) :
       /\ components[i] # <<>>
       /\ components' = [components EXCEPT ![i] = Reverse(components[i])]
  /\ calls' = 0
  /\ lastVary' = "winding"
  /\ UNCHANGED <<canon, xformVars>>

\* two neighbouring holes are exchanged
VaryHoleOrder ==
  /\ canon # <<>>
  /\ \E i \in 2..(Len(components) - 1) :
       components' = [components EXCEPT ![i] = components[i + 1],
                                        ![i + 1] = components[i]]
  /\ calls' = 0
  /\ lastVary' = "holes"
  /\ UNCHANGED <<canon, xformVars>>

NormNext == Normalize \/ VaryStart \/ VaryWinding \/ VaryHoleOrder

SpecNorm == NormInit /\ [][NormNext]_vars

(* ---- the ring accessors ---- *)
RingsInit ==
  /\ components \in Polygons
  /\ canon = <<>>
  /\ calls = 0
  /\ lastVary = "none"
  /\ XformIdle

\* p.getInteriorRingN(n)
GetInteriorRingN ==
  /\ ret.op = "none"
  /\ \E n \in RingIndexes : ret' = RingCall("getInteriorRingN", n, getInteriorRingN(components, n))
  /\ UNCHANGED <<scope, tr, normVars>>

\* p.getNumInteriorRing()
GetNumInteriorRing ==
  /\ ret.op = "none"
  /\ ret' = RingCall("getNumInteriorRing", getNumInteriorRing(components), NoOutcome)
  /\ UNCHANGED <<scope, tr, normVars>>

RingsNext == GetInteriorRingN \/ GetNumInteriorRing

SpecRings == RingsInit /\ [][RingsNext]_vars

(* ---- the geometry transformer on its own ---- *)
TransInit ==
  /\ NormIdle
  /\ scope \in TransScopes
  /\ tr = newGeometryTransformer
  /\ ret = NoCall

\* a client or subclass sets one of the public flags before the transform
Configure ==
  /\ tr.inputGeom = NullGeom
  /\ ret.op = "none"
  /\ \E v \in BOOLEAN :
       \/ tr' = [tr EXCEPT !.pruneEmptyGeometry = v]
       \/ tr' = [tr EXCEPT !.preserveGeometryCollectionType = v]
       \/ tr' = [tr EXCEPT !.preserveType = v]
  /\ UNCHANGED <<scope, ret, normVars>>

\* t.transform(g) on a transformer not used before
Transform ==
  /\ tr.cls = "GeometryTransformer"
  /\ tr.inputGeom = NullGeom
  /\ \E g \in Geometries :
       \E out \in {transform(tr, scope, g)} :
         /\ ret' = Call("transform", g, NullGeom, 0, FALSE, out)
         /\ tr' = [tr EXCEPT !.inputGeom = out.input]
  /\ UNCHANGED <<scope, normVars>>

\* the transformer is discarded and a new one made
NewTransformer ==
  /\ tr.inputGeom # NullGeom
  /\ tr' = newGeometryTransformer
  /\ ret' = NoCall
  /\ UNCHANGED <<scope, normVars>>

TransNext == Configure \/ Transform \/ NewTransformer

SpecTrans == TransInit /\ [][TransNext]_vars

(* ---- the snapper ---- *)
SnapInit ==
  /\ NormIdle
  /\ scope \in SnapScopes
  /\ tr = newGeometryTransformer
  /\ ret = NoCall

\* new SnapTransformer(tol, pts) or new SnapTransformer(tol, pts, flag);
\* whatever transformer was at hand is dropped
NewSnapTransformer ==
  /\ ret.op = "none"
  /\ \E nargs \in {2, 3}, tol \in Tolerances, g \in SnapGeoms :
       \E made \in {newSnapTransformer(scope, nargs, tol, extractTargetCoordinates(g))} :
         /\ tr' = made.t
         /\ ret' = Call("new", NullGeom, g, tol, nargs = 3,
                        IF made.tag = "throw" THEN Throw(made.error)
                        ELSE Return(NullGeom, "new", <<>>))
  /\ UNCHANGED <<scope, normVars>>

\* t.transform(g) on the snap transformer at hand, not used before
SnapTransform ==
  /\ ret.op = "none"
  /\ tr.cls = "SnapTransformer"
  /\ \E g \in SnapGeoms :
       \E out \in {transform(tr, scope, g)} :
         /\ ret' = Call("transform", g, NullGeom, 0, FALSE, out)
         /\ tr' = [tr EXCEPT !.inputGeom = out.input]
  /\ UNCHANGED <<scope, normVars>>

\* new GeometrySnapper(src).snapTo(other, tol)
SnapTo ==
  /\ ret.op = "none"
  /\ \E src \in SnapGeoms, other \in SnapGeoms, tol \in Tolerances :
       \E e \in {snapTo(scope, src, other, tol)} :
         /\ ret' = Call("snapTo", src, other, tol, FALSE, e.out)
         /\ scope' = e.scope
  /\ UNCHANGED <<tr, normVars>>

\* GeometrySnapper.snap(g0, g1, tol)
Snap ==
  /\ ret.op = "none"
  /\ \E g0 \in SnapGeoms, g1 \in SnapGeoms, tol \in Tolerances :
       \E e \in {snap(scope, g0, g1, tol)} :
         /\ ret' = Call("snap", g0, g1, tol, FALSE, e.out)
         /\ scope' = e.scope
  /\ UNCHANGED <<tr, normVars>>

\* new GeometrySnapper(src).snapToSelf(tol, cleanResult)
SnapToSelf ==
  /\ ret.op = "none"
  /\ \E src \in SnapGeoms, tol \in Tolerances, cleanResult \in BOOLEAN :
       \E e \in {snapToSelf(scope, src, tol, cleanResult)} :
         /\ ret' = Call("snapToSelf", src, NullGeom, tol, cleanResult, e.out)
         /\ scope' = e.scope
  /\ UNCHANGED <<tr, normVars>>

\* the caller is done with the result, and with a transformer that has run
Discard ==
  /\ ret.op # "none"
  /\ ret' = NoCall
  /\ tr' = IF tr.inputGeom # NullGeom THEN newGeometryTransformer ELSE tr
  /\ UNCHANGED <<scope, normVars>>

SnapNext == NewSnapTransformer \/ SnapTransform \/ SnapTo \/ Snap \/ SnapToSelf \/ Discard

SpecSnap == SnapInit /\ [][SnapNext]_vars

(***************************************************************************)
(* Vocabulary of the properties: plane geometry stated independently of    *)
(* the operators the code calls.                                           *)
(***************************************************************************)
\* twice the signed area of the triangle a, b, c (positive: a left turn)
Cross(a, b, c) == (b[1] - a[1]) * (c[2] - a[2]) - (b[2] - a[2]) * (c[1] - a[1])

Sign(n) == IF n > 0 THEN 1 ELSE IF n < 0 THEN -1 ELSE 0

\* c lies in the bounding box of the segment a-b
InBox(a, b, c) ==
  /\ (IF a[1] < b[1] THEN a[1] ELSE b[1]) <= c[1]
  /\ c[1] <= (IF a[1] < b[1] THEN b[1] ELSE a[1])
  /\ (IF a[2] < b[2] THEN a[2] ELSE b[2]) <= c[2]
  /\ c[2] <= (IF a[2] < b[2] THEN b[2] ELSE a[2])

\* the closed segments a-b and c-d have a point in common
SegsMeet(a, b, c, d) ==
  LET o1 == Sign(Cross(a, b, c))
      o2 == Sign(Cross(a, b, d))
      o3 == Sign(Cross(c, d, a))
      o4 == Sign(Cross(c, d, b))
  IN  \/ o1 * o2 < 0 /\ o3 * o4 < 0
      \/ o1 = 0 /\ InBox(a, b, c)
      \/ o2 = 0 /\ InBox(a, b, d)
      \/ o3 = 0 /\ InBox(c, d, a)
      \/ o4 = 0 /\ InBox(c, d, b)

\* the edges a-v and v-b fold back onto each other
FoldsBack(a, v, b) ==
  /\ Cross(a, v, b) = 0
  /\ (a[1] - v[1]) * (b[1] - v[1]) + (a[2] - v[2]) * (b[2] - v[2]) > 0

\* A closed ring is simple: at least three vertices, none repeated, edges
\* that neither cross nor touch except neighbours at their shared vertex.
IsSimple(ring) ==
  LET n == Len(ring) - 1
      nxt(i) == IF i = n THEN 1 ELSE i + 1
  IN  /\ n >= 3
      /\ ring[1] = ring[n + 1]
      /\ \A i, j \in 1..n : i # j => ring[i] # ring[j]
      /\ \A i \in 1..n : ~FoldsBack(ring[i], ring[nxt(i)], ring[nxt(nxt(i))])
      /\ \A i, j \in 1..n :
            (i # j /\ nxt(i) # j /\ nxt(j) # i)
              => ~SegsMeet(ring[i], ring[nxt(i)], ring[j], ring[nxt(j)])

AllSimpleOrEmpty(comps) == \A i \in 1..Len(comps) : comps[i] = <<>> \/ IsSimple(comps[i])

\* twice the signed area enclosed by a closed ring (positive: counter-clockwise)
RECURSIVE Area2From(_, _)
Area2From(ring, i) ==
  IF i >= Len(ring) THEN 0
  ELSE ring[i][1] * ring[i + 1][2] - ring[i + 1][1] * ring[i][2] + Area2From(ring, i + 1)

Area2(ring) == Area2From(ring, 1)

\* a is lexicographically (x, then y) no greater than every point of ring
IsLeast(a, ring) ==
  \A i \in 1..Len(ring) :
    a[1] < ring[i][1] \/ (a[1] = ring[i][1] /\ a[2] <= ring[i][2])

StartsAndEndsAtLeast(ring) ==
  ring[1] = ring[Len(ring)] /\ IsLeast(ring[1], ring)

NumEmpty(comps) == Cardinality({i \in 1..Len(comps) : comps[i] = <<>>})

(***************************************************************************)
(* Properties of Polygon.normalize, checked under SpecNorm.                *)
(***************************************************************************)

\* C6 as stated: for any polygon, a normalize() call that directly follows
\* another leaves shell, holes and hole order as they were.
C6_IdempotentAnyPolygon ==
  [][(calls >= 1 /\ calls' = calls + 1) => components' = components]_vars

\* C6 amended: on a polygon whose non-empty rings are simple, a normalize()
\* call that directly follows another leaves shell, holes and hole order
\* as they were.
C6_IdempotentSimpleRings ==
  [][(calls >= 1 /\ calls' = calls + 1 /\ AllSimpleOrEmpty(components))
       => components' = components]_vars

\* a polygon of simple and empty rings, two holes, normalized twice in a row
C6_Witness ==
  /\ calls = 2
  /\ Len(components) = 3
  /\ AllSimpleOrEmpty(components)
  /\ components[1] # <<>>
  /\ \E i \in 2..3 : components[i] # <<>>

NormalizedShape(before, after, shellSign) ==
  /\ Len(after) = Len(before)
  /\ NumEmpty(after) = NumEmpty(before)
  /\ before[1] = <<>> => after[1] = <<>>
  /\ \A i \in 1..Len(after) :
        after[i] # <<>> =>
          /\ StartsAndEndsAtLeast(after[i])
          /\ IsSimple(after[i]) =>
                Sign(Area2(after[i])) = (IF i = 1 THEN shellSign ELSE -shellSign)

\* C8 as stated: after normalize() every non-empty ring starts and ends at
\* its least point, the shell is counter-clockwise and the holes are
\* clockwise; empty rings stay empty.
C8_ShellCcwHolesCw ==
  [][calls' = calls + 1 => NormalizedShape(components, components', 1)]_vars

\* C8 amended: after normalize() every non-empty ring starts and ends at its
\* least point, a simple shell is clockwise and simple holes are
\* counter-clockwise; empty rings stay empty.
C8_ShellCwHolesCcw ==
  [][calls' = calls + 1 => NormalizedShape(components, components', -1)]_vars

\* a normalized polygon with a simple shell, a simple hole and an empty hole
C8_Witness ==
  /\ calls = 1
  /\ Len(components) = 3
  /\ IsSimple(components[1])
  /\ \E i \in 2..3 : IsSimple(components[i])
  /\ \E i \in 2..3 : components[i] = <<>>

(***************************************************************************)
(* Vocabulary of the transformer and snapper properties.                   *)
(***************************************************************************)
\* the scope in which every free identifier of the code holds the field of
\* the same name of instance t: what the code would read if it read this.x
InstanceScope(t) ==
  Scope(Bound(TRUE), Bound(TRUE), Bound(t.snapTolerance), Bound(t.isSelfSnap),
        Bound(t.snapPts), Bound(t.pruneEmptyGeometry),
        Bound(t.preserveGeometryCollectionType), Bound(TRUE))

\* g transformed by a SnapTransformer holding these values, each read from
\* the instance
SnappedBy(g, snapPts, snapTolerance, isSelfSnap) ==
  LET t == [newGeometryTransformer EXCEPT !.cls = "SnapTransformer",
                                          !.snapTolerance = snapTolerance,
                                          !.snapPts = snapPts,
                                          !.isSelfSnap = isSelfSnap]
  IN  transform(t, InstanceScope(t), g)

\* the same result: returned or thrown alike, and the same geometry
SameResult(a, b) == a.tag = b.tag /\ a.geom = b.geom /\ a.error = b.error

NotEmpty(g) == ~isEmpty(g)

(***************************************************************************)
(* C1.  GeometrySnapper.snap(g0, g1, tol) returns the pair [s0, s1]: s0 is *)
(* g0 snapped with tolerance tol to the targets extracted from g1, and s1  *)
(* is g1 snapped with tolerance tol to the targets extracted from s0.      *)
(***************************************************************************)
C1_SnapReturnsOrderedPair ==
  ret.op = "snap" =>
    LET s0 == SnappedBy(ret.arg, extractTargetCoordinates(ret.other), ret.tol, FALSE).geom
        s1 == SnappedBy(ret.other, extractTargetCoordinates(s0), ret.tol, FALSE).geom
    IN  /\ ret.out.tag = "return"
        /\ ret.out.pair = <<s0, s1>>

\* C1: in a host that defines alert and nothing else, snap of two lines
\* ends in a ReferenceError
C1_Witness ==
  /\ ret.op = "snap"
  /\ IsBound(scope.alert)
  /\ ~IsBound(scope.LineStringSnapper)
  /\ ret.arg.kind = "LineString" /\ Len(ret.arg.coords) = 2
  /\ ret.other.kind = "LineString" /\ Len(ret.other.coords) = 2
  /\ ret.out.tag = "throw"
  /\ ret.out.error = "ReferenceError"

(***************************************************************************)
(* C2.  transform returns a geometry for every geometry tree, never null   *)
(* and never an error, and the result is empty exactly when the input's    *)
(* leaves are all empty (the default hook copies the coordinates).         *)
(***************************************************************************)
C2_TransformTotal ==
  ret.op = "transform" =>
    /\ ret.out.tag = "return"
    /\ ret.out.geom # NullGeom
    /\ isEmpty(ret.out.geom) <=> isEmpty(ret.arg)

\* C2: the transform of the empty GeometryCollection ends in a
\* ReferenceError in a host that defines neither flag name
C2_Witness ==
  /\ ret.op = "transform"
  /\ ret.arg = Given(createGeometryCollection(<<>>))
  /\ scope = BareScope
  /\ ret.out.tag = "throw"
  /\ ret.out.error = "ReferenceError"

C4_PolygonOrBuildGeometry ==
  (ret.op = "transform" /\ ret.arg.kind = "Polygon") =>
    LET rings == [i \in 1..Len(ret.arg.parts) |->
                    transformLinearRing(tr, scope, ret.arg.parts[i]).geom]
        shell == rings[1]
        holes == SelectSeq(Tail(rings), NotEmpty)
        ringsHold ==
          /\ shell.kind = "LinearRing"
          /\ NotEmpty(shell)
          /\ \A i \in 1..Len(holes) : holes[i].kind = "LinearRing"
    IN  /\ ret.out.tag = "return"
        /\ ringsHold =>
             /\ ret.out.via = "createPolygon"
             /\ ret.out.geom = Geom("Polygon", <<>>, <<shell>> \o holes)
        /\ ~ringsHold =>
             /\ ret.out.via = "buildGeometry"
             /\ ret.out.args = <<shell>> \o holes
             /\ ret.out.geom = buildGeometry(<<shell>> \o holes)
             /\ ret.out.geom.kind # "Polygon"

\* C4: a polygon with a valid shell, an empty hole and a hole demoted to a
\* LineString has gone to buildGeometry as the shell and the one hole kept
C4_Witness ==
  /\ ret.op = "transform"
  /\ ret.arg.kind = "Polygon"
  /\ Len(ret.arg.parts) = 3
  /\ ret.out.via = "buildGeometry"
  /\ Len(ret.out.args) = 2
  /\ ret.out.args[1].kind = "LinearRing"
  /\ ret.out.args[2].kind = "LineString"
  /\ ret.out.geom.kind = "GeometryCollection"

(***************************************************************************)
(* C5.  transformGeometryCollection reads pruneEmptyGeometry and           *)
(* preserveGeometryCollectionType from the transformer instance: the       *)
(* outcome is the one obtained when both names stand for this instance's   *)
(* fields.                                                                 *)
(***************************************************************************)
C5_FlagsReadFromInstance ==
  (ret.op = "transform" /\ ret.arg.kind = "GeometryCollection") =>
    LET meant == transform(tr, InstanceScope(tr), ret.arg)
    IN  /\ SameResult(ret.out, meant)
        /\ ret.out.via = meant.via

\* C5: the instance says not to prune and not to keep the collection type,
\* the host's globals say the opposite, and the globals win: the empty
\* member is gone and the result is a GeometryCollection
C5_Witness ==
  /\ ret.op = "transform"
  /\ ret.arg = Given(createGeometryCollection(<<createLineString(<<>>),
                                                createLineString(WalkLine(2))>>))
  /\ ~tr.pruneEmptyGeometry
  /\ ~tr.preserveGeometryCollectionType
  /\ scope.pruneEmptyGeometry = Bound(TRUE)
  /\ scope.preserveGeometryCollectionType = Bound(TRUE)
  /\ ret.out.geom = createGeometryCollection(<<createLineString(WalkLine(2))>>)

(***************************************************************************)
(* C9.  What a SnapTransformer's transform produces depends only on the    *)
(* input and on the snapTolerance, snapPts and isSelfSnap the instance was *)
(* constructed with, whatever snapTo and snapToSelf calls were made on     *)
(* other snappers since its construction.                                  *)
(***************************************************************************)
C9_OnlyInstanceValues ==
  (ret.op = "transform" /\ tr.cls = "SnapTransformer") =>
    SameResult(ret.out, transform(tr, InstanceScope(tr), ret.arg))

\* C9: a transformer constructed with no targets has moved a vertex of its
\* input, to a target that a later snapTo or snapToSelf on another snapper
\* left in the global snapPts
C9_Witness ==
  /\ ret.op = "transform"
  /\ tr.cls = "SnapTransformer"
  /\ tr.snapPts = <<>>
  /\ ret.out.tag = "return"
  /\ ret.out.geom.coords # ret.arg.coords
  /\ scope.snapPts # Bound(tr.snapPts)

(***************************************************************************)
(* C10.  snapToSelf(tol, cleanResult) completes without error and returns  *)
(* the source geometry snapped to its own coordinates with tolerance tol   *)
(* and the self-snap flag set, cleaned by buffer(0) exactly when           *)
(* cleanResult is set and the snapped geometry is polygonal.               *)
(***************************************************************************)
C10_SnapToSelfCompletes ==
  ret.op = "snapToSelf" =>
    LET meant == SnappedBy(ret.arg, extractTargetCoordinates(ret.arg), ret.tol, TRUE)
    IN  /\ ret.out.tag = "return"
        /\ ret.out.geom = meant.geom
        /\ ret.out.via = "buffer" <=> (ret.clean /\ isPolygonal(meant.geom))

\* C10: snapToSelf has ended in a TypeError, in a host that defines every
\* name the snapper reads
C10_Witness ==
  /\ ret.op = "snapToSelf"
  /\ IsBound(scope.alert)
  /\ IsBound(scope.LineStringSnapper)
  /\ IsBound(scope.snapTolerance)
  /\ IsBound(scope.isSelfSnap)
  /\ ret.out.tag = "throw"
  /\ ret.out.error = "TypeError"

(***************************************************************************)
(* C11.  transform does not touch its input and shares nothing with it:    *)
(* when it returns, every node of the returned tree and every array such   *)
(* a node holds was created during the call, and the input is the tree of  *)
(* the caller's objects it was, with the coordinates, rings and members    *)
(* it had.                                                                 *)
(***************************************************************************)
\* every node of g, and every array a node holds, was created by `by`
RECURSIVE AllBy(_, _)
AllBy(g, by) ==
  /\ g.by = by
  /\ g.seqBy = by
  /\ \A i \in 1..Len(g.parts) : AllBy(g.parts[i], by)

C11_OutputFreshInputKept ==
  (ret.op = "transform" /\ ret.out.tag = "return") =>
    /\ AllBy(ret.out.geom, "new")
    /\ \A i \in 1..Len(ret.out.args) : AllBy(ret.out.args[i], "new")
    /\ AllBy(ret.arg, "input")

\* C11: a polygon with a hole has come back as a polygon of the same rings
C11_Witness ==
  /\ ret.op = "transform"
  /\ ret.arg.kind = "Polygon"
  /\ Len(ret.arg.parts) = 2
  /\ Len(ret.arg.parts[2].coords) = MaxSeqLen
  /\ ret.out.tag = "return"
  /\ ret.out.geom.kind = "Polygon"
  /\ Len(ret.out.geom.parts) = 2
  /\ ret.out.geom.parts[2].coords = ret.arg.parts[2].coords
  /\ ret.out.geom.parts[2] # ret.arg.parts[2]

(***************************************************************************)
(* C12.  getInteriorRingN(i) returns the i-th hole for every i from 0 to   *)
(* getNumInteriorRing() - 1 and signals an error for every other i; the    *)
(* polygon's components are the same after the call.                       *)
(***************************************************************************)
C12_HoleOrRangeError ==
  [][ret'.op = "getInteriorRingN" =>
       /\ components' = components
       /\ IF ret'.n \in 0..(getNumInteriorRing(components) - 1)
          THEN /\ ret'.out.tag = "return"
               /\ ret'.out.geom.kind = "LinearRing"
               /\ ret'.out.geom.coords = components[ret'.n + 2]
          ELSE ret'.out.tag = "throw"]_vars

\* C12: asked for the hole after the last of two, the call has returned
\* undefined
C12_Witness ==
  /\ ret.op = "getInteriorRingN"
  /\ Len(components) = 3
  /\ ret.n = 2
  /\ ret.out.tag = "return"
  /\ ret.out.geom = UndefinedGeom

(***************************************************************************)
(* C13.  Once transform(g) has returned, getInputGeometry() on that        *)
(* transformer returns g, the geometry passed to the outermost call:       *)
(* transforming the members of a collection has not replaced it.           *)
(***************************************************************************)
C13_InputGeometryKept ==
  (ret.op = "transform" /\ ret.out.tag = "return") => getInputGeometry(tr) = ret.arg

\* C13: after the transform of a collection of two members has returned,
\* getInputGeometry() gives the second member
C13_Witness ==
  /\ ret.op = "transform"
  /\ ret.arg.kind = "GeometryCollection"
  /\ Len(ret.arg.parts) = 2
  /\ ret.out.tag = "return"
  /\ getInputGeometry(tr) = ret.arg.parts[2]
  /\ getInputGeometry(tr) # ret.arg

====
